---- MODULE Spec2Model ----
(***************************************************************************)
(* Call.AI: the mode record kept in state.json, the control endpoints      *)
(* (/set-mode, /clear-mode, /status) and the two call webhooks             *)
(* (/incoming-call, /process-recording) of src/app.py.                     *)
(*                                                                         *)
(* Requests are served by the threads of the Flask server; a request is a  *)
(* sequence of steps, one per access to state.json (a read, the truncating *)
(* open of save_state, the write of json.dump), so that requests           *)
(* interleave at the file.  Time is counted in minutes.                    *)
(***************************************************************************)
EXTENDS Integers, Sequences, FiniteSets, TLC

VARIABLES
    file,     \* state.json: missing, truncated by open(.., "w"), or a record
    now,      \* datetime.utcnow(), in minutes
    llmKey,   \* LLM_API_KEY is set
    thr,      \* per server thread: the request it serves and its locals
    call,     \* the inbound call in progress at the telephony provider
    lastq,    \* summary of the last completed /status that found an expired mode
    cleared,  \* done: a /clear-mode has returned, and no /set-mode has run beside it
              \* or started since; clean: the threads in a /clear-mode that no
              \* /set-mode has run beside so far
    savedNumber    \* the user_number of the last /set-mode that wrote its record

vars == <<file, now, llmKey, thr, call, lastq, cleared, savedNumber>>

----------------------------------------------------------------------------
(* Bounds *)

\* the clock stops advancing here
MaxNow == 2

\* server threads that serve requests concurrently
Threads == {"w1", "w2"}

----------------------------------------------------------------------------
(* Values *)

\* Python None / JSON null, for string-valued fields
None == "<None>"
\* a key absent from a request body
Missing == "<missing>"

\* the "expires" field: null, an ISO timestamp, or a string that is no timestamp
NoExpiry == [k |-> "null"]
Ts(t) == [k |-> "ts", t |-> t]
BadExpiry == [k |-> "bad"]

\* Truthy with the empty string taken for a value (a test "is not None")
Truthy_NotNone(x) == x # None

\* truthiness of a string-or-None value
Truthy(x) == x \notin {None, ""}

\* str(x) as an f-string renders it
PyStr(x) == IF x = None THEN "None" ELSE x

DefaultState ==
    [mode |-> "normal", reason |-> "", active |-> FALSE,
     expires |-> NoExpiry, user_number |-> None]

FileMissing == [st |-> "missing"]
FileTruncated == [st |-> "trunc"]
FileOf(rec) == [st |-> "ok", rec |-> rec]

----------------------------------------------------------------------------
(* Characters and strings as sequences of characters *)

Whitespace == {" ", "\t", "\n"}

RECURSIVE LStrip(_)
LStrip(s) ==
    IF s # <<>> /\ Head(s) \in Whitespace THEN LStrip(Tail(s)) ELSE s

RECURSIVE RStrip(_)
RStrip(s) ==
    IF s # <<>> /\ s[Len(s)] \in Whitespace
    THEN RStrip(SubSeq(s, 1, Len(s) - 1)) ELSE s

\* str.strip()
Strip(s) == RStrip(LStrip(s))

Digits == {"0", "1", "2", "3", "4", "5", "6", "7", "8", "9"}

DigitVal(c) ==
    CASE c = "0" -> 0 [] c = "1" -> 1 [] c = "2" -> 2 [] c = "3" -> 3
      [] c = "4" -> 4 [] c = "5" -> 5 [] c = "6" -> 6 [] c = "7" -> 7
      [] c = "8" -> 8 [] c = "9" -> 9

RECURSIVE DigitsVal(_)
DigitsVal(s) ==
    IF s = <<>> THEN 0
    ELSE 10 * DigitsVal(SubSeq(s, 1, Len(s) - 1)) + DigitVal(s[Len(s)])

Raised == [ok |-> FALSE]
Value(v) == [ok |-> TRUE, v |-> v]

\* int(str): surrounding whitespace, an optional sign, decimal digits
IntOfStr(s) ==
    LET b == Strip(s)
        signed == b # <<>> /\ Head(b) \in {"+", "-"}
        d == IF signed THEN Tail(b) ELSE b
    IN  IF d = <<>> \/ \E i \in 1..Len(d) : d[i] \notin Digits THEN Raised
        ELSE IF signed /\ Head(b) = "-" THEN Value(0 - DigitsVal(d))
        ELSE Value(DigitsVal(d))

\* int(x) for the JSON values a request body can carry under "duration"
PyInt(x) ==
    CASE x.k = "int" -> Value(x.v)
      [] x.k = "float" ->
            Value(IF x.num >= 0 THEN x.num \div x.den ELSE 0 - ((0 - x.num) \div x.den))
      [] x.k = "bool" -> Value(IF x.b THEN 1 ELSE 0)
      [] x.k = "str" -> IntOfStr(x.s)
      [] OTHER -> Raised   \* null, list, object

----------------------------------------------------------------------------
(* /set-mode: the duration of the request body *)

DefaultDuration == 5
MinDuration == 1
MaxDuration == 60

\* Duration without the upper clamp of app.py 93-94
Duration_NoUpperClamp(body) ==
    LET r == PyInt(IF body.duration.k = "missing"
                   THEN [k |-> "int", v |-> DefaultDuration] ELSE body.duration)
    IN  IF ~r.ok THEN DefaultDuration
        ELSE IF r.v < MinDuration THEN MinDuration
        ELSE r.v

\* app.py 89-96
Duration(body) ==
    LET r == PyInt(IF body.duration.k = "missing"
                   THEN [k |-> "int", v |-> DefaultDuration] ELSE body.duration)
    IN  IF ~r.ok THEN DefaultDuration
        ELSE IF r.v < MinDuration THEN MinDuration
        ELSE IF r.v > MaxDuration THEN MaxDuration
        ELSE r.v

\* data.get(key, default)
Get(v, default) == IF v = Missing THEN default ELSE v

\* the record /set-mode builds, app.py 86-105
SetModeState(body, t) ==
    [mode |-> Get(body.mode, "normal"),
     reason |-> Get(body.reason, ""),
     active |-> TRUE,
     expires |-> Ts(t + Duration(body)),
     user_number |-> Get(body.user_number, None)]

\* ClearModeState that resets the whole record to the default one, the number
\* too
ClearModeState_DropsNumber(state) ==
    [state EXCEPT !.active = FALSE, !.mode = "normal", !.reason = "",
                  !.expires = NoExpiry, !.user_number = None]

\* the record /clear-mode builds, app.py 113-116
ClearModeState(state) ==
    [state EXCEPT !.active = FALSE, !.mode = "normal", !.reason = "",
                  !.expires = NoExpiry]

----------------------------------------------------------------------------
(* Text: the transcript and the urgency decision *)

LowerCase == <<"a", "b", "c", "d", "e", "f", "g", "h", "i", "j", "k", "l", "m",
               "n", "o", "p", "q", "r", "s", "t", "u", "v", "w", "x", "y", "z">>
UpperCase == <<"A", "B", "C", "D", "E", "F", "G", "H", "I", "J", "K", "L", "M",
               "N", "O", "P", "Q", "R", "S", "T", "U", "V", "W", "X", "Y", "Z">>

LowerChar(c) ==
    IF \E i \in 1..Len(UpperCase) : UpperCase[i] = c
    THEN LowerCase[CHOOSE i \in 1..Len(UpperCase) : UpperCase[i] = c] ELSE c
UpperChar(c) ==
    IF \E i \in 1..Len(LowerCase) : LowerCase[i] = c
    THEN UpperCase[CHOOSE i \in 1..Len(LowerCase) : LowerCase[i] = c] ELSE c

\* str.lower(), str.upper()
Lower(s) == [i \in 1..Len(s) |-> LowerChar(s[i])]
Upper(s) == [i \in 1..Len(s) |-> UpperChar(s[i])]

\* w in s
Contains(s, w) ==
    \E i \in 0..(Len(s) - Len(w)) : SubSeq(s, i + 1, i + Len(w)) = w

\* urgent_words, app.py 264
UrgentWords ==
    {<<"u", "r", "g", "e", "n", "t">>,
     <<"e", "m", "e", "r", "g", "e", "n", "c", "y">>,
     <<"i", "m", "p", "o", "r", "t", "a", "n", "t">>,
     <<"a", "s", "a", "p">>,
     <<"i", "m", "m", "e", "d", "i", "a", "t", "e", "l", "y">>,
     <<"h", "e", "l", "p">>}

\* KeywordUrgent that looks for the words in the text as it was said, without
\* lower()
KeywordUrgent_CaseSensitive(text) ==
    \E w \in UrgentWords : Contains(text, w)

\* the keyword fallback, app.py 264-266
KeywordUrgent(text) ==
    LET t == Lower(text) IN \E w \in UrgentWords : Contains(t, w)

\* is_urgent, app.py 245-257: the Groq completion is requested
LlmCalled(text, key) == Strip(text) # <<>> /\ key

\* IsUrgent where an exception of the Groq call ends the classification with
\* False instead of falling through to the keywords
IsUrgent_NoFallback(text, key, llm) ==
    LET t == Strip(text)
    IN  IF t = <<>> THEN FALSE
        ELSE IF key
             THEN llm.ok /\ Contains(Upper(Strip(llm.ans)), <<"Y", "E", "S">>)
        ELSE KeywordUrgent(t)

\* is_urgent, app.py 244-266; llm is what the Groq call does when it is made
IsUrgent(text, key, llm) ==
    LET t == Strip(text)
    IN  IF t = <<>> THEN FALSE
        ELSE IF key /\ llm.ok
             THEN Contains(Upper(Strip(llm.ans)), <<"Y", "E", "S">>)
        ELSE KeywordUrgent(t)

\* what recognize_google can return (or it raises)
Transcripts ==
    {<<>>,
     <<" ">>,
     <<"c", "a", "l", "l", " ", "m", "e">>,
     <<"H", "e", "l", "p", " ", "m", "e">>,
     <<" ", "A", "S", "A", "P", " ">>}

\* what the Groq completion can answer (or the call raises)
LlmAnswers ==
    {<<"Y", "E", "S">>, <<"N", "O">>, <<" ", "y", "e", "s", ".">>}

SttOutcomes == {Raised} \cup {[ok |-> TRUE, text |-> x] : x \in Transcripts}
LlmOutcomes == {Raised} \cup {[ok |-> TRUE, ans |-> a] : a \in LlmAnswers}

----------------------------------------------------------------------------
(* TwiML and the sentences *)

Say(sentence) == [verb |-> "Say", arg |-> sentence]
Hangup == [verb |-> "Hangup", arg |-> <<>>]
Dial(number) == [verb |-> "Dial", arg |-> <<number>>]
Record == [verb |-> "Record", arg |-> <<"/process-recording">>]

GenericGreeting == <<"Hello! I am your AI assistant. Please speak after the beep.">>
ModeGreeting(mode) ==
    <<"The user is currently in ", PyStr(mode), " mode. Please speak after the beep.">>
NoRecordingSentence == <<"Sorry, I did not get that. Goodbye.">>
FetchErrorSentence == <<"Sorry, there was an error processing your message.">>
ConnectingSentence ==
    <<"This seems urgent. I will connect you to the user now. Please hold.">>
SleepSentence == <<"The user is currently sleeping. I will notify them.">>
MeetingSentence == <<"The user is in a meeting and cannot take calls right now.">>
DrivingSentence == <<"The user is driving. I will tell them to call you when safe.">>
CustomSentence(reason) ==
    <<"The user is not available: ", reason, ". I will let them know.">>
UnavailableSentence == <<"The user is currently unavailable. I will notify them.">>
NormalSentence ==
    <<"The user is not available right now. They will call you back soon.">>

\* mode_reply, app.py 272-287
mode_reply(state) ==
    LET reason == IF Truthy(state.reason) THEN state.reason ELSE ""
    IN  CASE state.mode = "sleep" -> SleepSentence
          [] state.mode = "meeting" -> MeetingSentence
          [] state.mode = "driving" -> DrivingSentence
          [] state.mode = "custom" ->
                IF reason # "" THEN CustomSentence(reason) ELSE UnavailableSentence
          [] OTHER -> NormalSentence

----------------------------------------------------------------------------
(* state.json *)

\* load_state that answers a file it cannot parse like a file that is not
\* there: it writes the default record and returns it
load_state_ResetsUnreadable(f) ==
    CASE f.st = "ok" -> [ok |-> TRUE, rec |-> f.rec, file |-> f]
      [] OTHER -> [ok |-> TRUE, rec |-> DefaultState, file |-> FileOf(DefaultState)]

\* load_state, app.py 25-37: the record read, and the file it leaves
load_state(f) ==
    CASE f.st = "missing" ->
            [ok |-> TRUE, rec |-> DefaultState, file |-> FileOf(DefaultState)]
      [] f.st = "trunc" -> [ok |-> FALSE, rec |-> DefaultState, file |-> f]
      [] OTHER -> [ok |-> TRUE, rec |-> f.rec, file |-> f]

\* ModeCheck without the comparison with the clock of app.py 62-67
ModeCheck_IgnoresExpiry(state, t) ==
    IF ~state.active
    THEN [active |-> FALSE, save |-> FALSE, state |-> state, found |-> "inactive"]
    ELSE IF state.expires = NoExpiry
    THEN [active |-> FALSE, save |-> FALSE, state |-> state, found |-> "missing"]
    ELSE IF state.expires.k # "ts"
    THEN [active |-> FALSE, save |-> TRUE,
          state |-> [state EXCEPT !.active = FALSE], found |-> "malformed"]
    ELSE [active |-> TRUE, save |-> FALSE, state |-> state, found |-> "live"]

\* is_mode_active after its load_state, app.py 47-69: the result, whether it
\* saves, and the record it saves
ModeCheck(state, t) ==
    IF ~state.active
    THEN [active |-> FALSE, save |-> FALSE, state |-> state, found |-> "inactive"]
    ELSE IF state.expires = NoExpiry
    THEN [active |-> FALSE, save |-> FALSE, state |-> state, found |-> "missing"]
    ELSE IF state.expires.k # "ts"
    THEN [active |-> FALSE, save |-> TRUE,
          state |-> [state EXCEPT !.active = FALSE], found |-> "malformed"]
    ELSE IF t > state.expires.t
    THEN [active |-> FALSE, save |-> TRUE,
          state |-> [state EXCEPT !.active = FALSE, !.expires = NoExpiry],
          found |-> "expired"]
    ELSE [active |-> TRUE, save |-> FALSE, state |-> state, found |-> "live"]

----------------------------------------------------------------------------
(* Requests *)

NoResponse == [kind |-> "none", state |-> DefaultState, verbs |-> <<>>, cause |-> ""]
\* jsonify(..): /set-mode and /clear-mode wrap the record, /status returns it
JsonResponse(state) == [NoResponse EXCEPT !.kind = "json", !.state = state]
\* Response(str(resp), mimetype="text/xml")
TwimlResponse(verbs) == [NoResponse EXCEPT !.kind = "twiml", !.verbs = verbs]
\* an exception that leaves the view function: Flask answers 500
ServerError(cause) == [NoResponse EXCEPT !.kind = "error", !.cause = cause]

\* a /set-mode request body; a key that is absent is Missing
NoBody ==
    [mode |-> Missing, reason |-> Missing, duration |-> [k |-> "missing"],
     user_number |-> Missing]

\* pc, op: where the thread is and in which view function; state, ima, buf,
\* cont: the locals (the record held, the result of is_mode_active, the record
\* being saved and where save_state returns to); found: what is_mode_active
\* met; body, at: the request body and the time it arrived; ret: the response
IdleThread ==
    [pc |-> "idle", op |-> "", state |-> DefaultState, ima |-> FALSE,
     buf |-> DefaultState, cont |-> "", found |-> "", body |-> NoBody, at |-> 0,
     ret |-> NoResponse]

NoCall ==
    [phase |-> "none", snap |-> DefaultState, snapAt |-> 0, greet |-> <<>>,
     hasUrl |-> FALSE, fetched |-> FALSE, fetchFailed |-> FALSE,
     transcribed |-> FALSE, classified |-> FALSE, urgent |-> FALSE,
     text |-> <<>>, llmCalls |-> 0, llm |-> Raised, out |-> NoResponse]

NotCleared == [done |-> FALSE, clean |-> {}]

NoQuery == [valid |-> FALSE, ret |-> DefaultState, post |-> DefaultState]

Finish(th, response) == [th EXCEPT !.pc = "done", !.ret = response]

\* save_state(state) from thread record th, then continue at cont
Save(th, state, cont) ==
    [th EXCEPT !.pc = "save_open", !.buf = state, !.cont = cont]

\* AfterModeCheck where /status saves its copy of the record without storing
\* the result of is_mode_active() in it (app.py 125 left out)
AfterModeCheck_KeepsActive(th) ==
    IF th.op = "status"
    THEN Save(th, th.state, "return")
    ELSE IF th.ima THEN [th EXCEPT !.pc = "ic_load"]
    ELSE Finish(th, TwimlResponse(<<Say(GenericGreeting), Record>>))

\* what follows is_mode_active() in its caller: /status stores the result in
\* its own copy of the record and saves it (app.py 125-127); /incoming-call
\* reads the record again when the mode is active (app.py 170-175)
AfterModeCheck(th) ==
    IF th.op = "status"
    THEN LET state == [th.state EXCEPT !.active = th.ima]
         IN  Save([th EXCEPT !.state = state], state, "return")
    ELSE IF th.ima THEN [th EXCEPT !.pc = "ic_load"]
    ELSE Finish(th, TwimlResponse(<<Say(GenericGreeting), Record>>))

\* is_mode_active() run by thread record th: load_state and the checks
is_mode_active(th) ==
    LET l == load_state(file)
        c == ModeCheck(l.rec, now)
    IN  IF ~l.ok THEN Finish([th EXCEPT !.found = "unreadable"],
                             ServerError("state_unreadable"))
        ELSE IF c.save
        THEN Save([th EXCEPT !.ima = c.active, !.found = c.found], c.state, "after_check")
        ELSE AfterModeCheck([th EXCEPT !.ima = c.active, !.found = c.found])

\* /set-mode, app.py 75-107, up to save_state
set_mode(t, body) ==
    /\ thr[t].pc = "idle"
    /\ LET state == SetModeState(body, now)
       IN  thr' = [thr EXCEPT ![t] =
                      Save([IdleThread EXCEPT !.op = "set_mode", !.state = state,
                                              !.body = body, !.at = now],
                           state, "return")]
    /\ lastq' = NoQuery
    /\ cleared' = NotCleared
    /\ UNCHANGED <<file, now, llmKey, call, savedNumber>>

\* /clear-mode, app.py 110-118, up to save_state
clear_mode(t) ==
    /\ thr[t].pc = "idle"
    /\ LET l == load_state(file)
           th == [IdleThread EXCEPT !.op = "clear_mode"]
       IN  /\ file' = l.file
           /\ thr' = [thr EXCEPT ![t] =
                  IF ~l.ok THEN Finish(th, ServerError("state_unreadable"))
                  ELSE LET state == ClearModeState(l.rec)
                       IN  Save([th EXCEPT !.state = state], state, "return")]
    /\ lastq' = NoQuery
    /\ cleared' = [cleared EXCEPT !.clean =
                      IF \A u \in Threads : thr[u].op # "set_mode"
                      THEN cleared.clean \cup {t} ELSE cleared.clean]
    /\ UNCHANGED <<now, llmKey, call, savedNumber>>

\* /status, app.py 121-123: its own load_state
status(t) ==
    /\ thr[t].pc = "idle"
    /\ LET l == load_state(file)
           th == [IdleThread EXCEPT !.op = "status"]
       IN  /\ file' = l.file
           /\ thr' = [thr EXCEPT ![t] =
                  IF ~l.ok THEN Finish(th, ServerError("state_unreadable"))
                  ELSE [th EXCEPT !.pc = "check", !.state = l.rec]]
    /\ UNCHANGED <<now, llmKey, call, lastq, cleared, savedNumber>>

\* /status, app.py 125: the call of is_mode_active()
status_check(t) ==
    /\ thr[t].pc = "check"
    /\ file' = load_state(file).file
    /\ thr' = [thr EXCEPT ![t] = is_mode_active(thr[t])]
    /\ UNCHANGED <<now, llmKey, call, lastq, cleared, savedNumber>>

\* save_state, app.py 41: open(STATE_FILE, "w") truncates the file
save_open(t) ==
    /\ thr[t].pc = "save_open"
    /\ file' = FileTruncated
    /\ thr' = [thr EXCEPT ![t].pc = "save_write"]
    /\ UNCHANGED <<now, llmKey, call, lastq, cleared, savedNumber>>

\* save_state, app.py 42: json.dump and the close write the record; then the
\* caller goes on
save_write(t) ==
    /\ thr[t].pc = "save_write"
    /\ file' = FileOf(thr[t].buf)
    /\ thr' = [thr EXCEPT ![t] =
           IF thr[t].cont = "after_check" THEN AfterModeCheck(thr[t])
           ELSE Finish(thr[t], JsonResponse(thr[t].state))]
    /\ savedNumber' = IF thr[t].op = "set_mode" THEN thr[t].buf.user_number ELSE savedNumber
    /\ UNCHANGED <<now, llmKey, call, lastq, cleared>>

\* /incoming-call, app.py 160-169: the call of is_mode_active()
incoming_call(t) ==
    /\ thr[t].pc = "idle"
    /\ call.phase = "none"
    /\ LET l == load_state(file)
       IN  /\ file' = l.file
           /\ thr' = [thr EXCEPT ![t] =
                  is_mode_active([IdleThread EXCEPT !.op = "incoming_call"])]
           /\ call' = [NoCall EXCEPT !.phase = "greeting", !.snap = l.rec,
                                     !.snapAt = now]
    /\ lastq' = NoQuery
    /\ UNCHANGED <<now, llmKey, cleared, savedNumber>>

\* /incoming-call, app.py 170-179: the second load_state and the response
incoming_greet(t) ==
    /\ thr[t].pc = "ic_load"
    /\ LET l == load_state(file)
       IN  /\ file' = l.file
           /\ thr' = [thr EXCEPT ![t] =
                  IF ~l.ok THEN Finish(thr[t], ServerError("state_unreadable"))
                  ELSE Finish([thr[t] EXCEPT !.state = l.rec],
                          TwimlResponse(<<Say(ModeGreeting(l.rec.mode)), Record>>))]
    /\ UNCHANGED <<now, llmKey, call, lastq, cleared, savedNumber>>

\* what the request and the collaborators of /process-recording do: hasUrl
\* (RecordingUrl is in the form), fetchOk (requests.get and the write of
\* caller.wav do not raise), decodable (sr.AudioFile accepts the bytes), stt
\* (recognize_google) and llm (the Groq completion); a step that is not
\* reached has no outcome to choose
Outcome(hasUrl, fetchOk, decodable, stt, llm) ==
    [hasUrl |-> hasUrl, fetchOk |-> fetchOk, decodable |-> decodable,
     stt |-> stt, llm |-> llm]

RecordingOutcomes ==
    {Outcome(FALSE, FALSE, FALSE, Raised, Raised),
     Outcome(TRUE, FALSE, FALSE, Raised, Raised),
     Outcome(TRUE, TRUE, FALSE, Raised, Raised)}
    \cup {Outcome(TRUE, TRUE, TRUE, stt, llm) : stt \in SttOutcomes, llm \in LlmOutcomes}

\* more of what recognize_google can return: each urgent word, in every
\* case, inside another word and next to punctuation; texts that hold none;
\* text of whitespace alone
TranscriptsWide ==
    Transcripts \cup
    {<<"\t", "\n", " ">>,
     <<"U", "r", "g", "e", "n", "t", "!">>,
     <<"a", "n", " ", "e", "m", "e", "r", "g", "e", "n", "c", "y">>,
     <<"I", "M", "P", "O", "R", "T", "A", "N", "T">>,
     <<"i", "m", "m", "e", "d", "i", "a", "t", "e", "l", "y", "\n">>,
     <<"u", "n", "h", "e", "l", "p", "f", "u", "l">>,
     <<"h", "e", "l", " ", "p">>,
     <<"Y", "E", "S">>}

\* more of what the Groq completion can answer
LlmAnswersWide ==
    LlmAnswers \cup {<<>>, <<"n", "o", " ", "h", "e", "l", "p">>}

RecordingOutcomesWide ==
    RecordingOutcomes
    \cup {Outcome(TRUE, TRUE, TRUE, [ok |-> TRUE, text |-> x], llm) :
             x \in TranscriptsWide,
             llm \in {Raised} \cup {[ok |-> TRUE, ans |-> a] : a \in LlmAnswersWide}}

\* process_recording without the check of app.py 189-194: a request without
\* RecordingUrl goes on to build the address of the recording and fails there
process_recording_NoUrlCheck(t, o) ==
    /\ thr[t].pc = "idle"
    /\ call.phase = "recording"
    /\ LET l == load_state(file)
           state == l.rec
           hasUrl == o.hasUrl
           fetchOk == o.fetchOk
           decodable == o.decodable
           stt == o.stt
           llm == o.llm
           caller_text == IF stt.ok THEN stt.text ELSE <<>>
           urgent == IsUrgent(caller_text, llmKey, llm)
           fetched == l.ok /\ hasUrl
           transcribed == fetched /\ fetchOk /\ decodable
           called == transcribed /\ LlmCalled(caller_text, llmKey)
           response ==
               IF ~l.ok THEN ServerError("state_unreadable")
               ELSE IF ~hasUrl THEN ServerError("no_recording_url")
               ELSE IF ~fetchOk THEN TwimlResponse(<<Say(FetchErrorSentence), Hangup>>)
               ELSE IF ~decodable THEN ServerError("audio_unreadable")
               ELSE IF urgent /\ Truthy(state.user_number)
               THEN TwimlResponse(<<Say(ConnectingSentence), Dial(state.user_number)>>)
               ELSE TwimlResponse(<<Say(mode_reply(state)), Hangup>>)
       IN  /\ file' = l.file
           /\ call' = [call EXCEPT !.phase = "ended",
                          !.hasUrl = hasUrl, !.fetched = fetched,
                          !.fetchFailed = fetched /\ ~fetchOk,
                          !.transcribed = transcribed, !.classified = transcribed,
                          !.urgent = transcribed /\ urgent,
                          !.text = IF transcribed THEN caller_text ELSE <<>>,
                          !.llmCalls = IF called THEN 1 ELSE 0,
                          !.llm = IF called THEN llm ELSE Raised,
                          !.out = response]
    /\ UNCHANGED <<now, llmKey, thr, lastq, cleared, savedNumber>>

\* /process-recording, app.py 185-238.  state.json is read once, first; the
\* rest works on the request and on the collaborators.
process_recording(t, o) ==
    /\ thr[t].pc = "idle"
    /\ call.phase = "recording"
    /\ LET l == load_state(file)
           state == l.rec
           hasUrl == o.hasUrl
           fetchOk == o.fetchOk
           decodable == o.decodable
           stt == o.stt
           llm == o.llm
           caller_text == IF stt.ok THEN stt.text ELSE <<>>
           urgent == IsUrgent(caller_text, llmKey, llm)
           fetched == l.ok /\ hasUrl
           transcribed == fetched /\ fetchOk /\ decodable
           called == transcribed /\ LlmCalled(caller_text, llmKey)
           response ==
               IF ~l.ok THEN ServerError("state_unreadable")
               ELSE IF ~hasUrl THEN TwimlResponse(<<Say(NoRecordingSentence), Hangup>>)
               ELSE IF ~fetchOk THEN TwimlResponse(<<Say(FetchErrorSentence), Hangup>>)
               ELSE IF ~decodable THEN ServerError("audio_unreadable")
               ELSE IF urgent /\ Truthy(state.user_number)
               THEN TwimlResponse(<<Say(ConnectingSentence), Dial(state.user_number)>>)
               ELSE TwimlResponse(<<Say(mode_reply(state)), Hangup>>)
       IN  /\ file' = l.file
           /\ call' = [call EXCEPT !.phase = "ended",
                          !.hasUrl = hasUrl, !.fetched = fetched,
                          !.fetchFailed = fetched /\ ~fetchOk,
                          !.transcribed = transcribed, !.classified = transcribed,
                          !.urgent = transcribed /\ urgent,
                          !.text = IF transcribed THEN caller_text ELSE <<>>,
                          !.llmCalls = IF called THEN 1 ELSE 0,
                          !.llm = IF called THEN llm ELSE Raised,
                          !.out = response]
    /\ UNCHANGED <<now, llmKey, thr, lastq, cleared, savedNumber>>

\* the response leaves the server and the thread is free again
return(t) ==
    /\ thr[t].pc = "done"
    /\ thr' = [thr EXCEPT ![t] = IdleThread]
    /\ call' = IF thr[t].op = "incoming_call"
               THEN [call EXCEPT !.phase = IF thr[t].ret.kind = "twiml"
                                           THEN "recording" ELSE "failed",
                                 !.greet = thr[t].ret.verbs]
               ELSE call
    /\ lastq' = IF thr[t].op = "status"
                THEN IF thr[t].ret.kind = "json" /\ thr[t].found = "expired"
                        /\ file.st = "ok"
                     THEN [valid |-> TRUE, ret |-> thr[t].ret.state, post |-> file.rec]
                     ELSE NoQuery
                ELSE lastq
    /\ cleared' = [done |-> cleared.done \/ (t \in cleared.clean /\ thr[t].ret.kind = "json"),
                   clean |-> cleared.clean \ {t}]
    /\ UNCHANGED <<file, now, llmKey, savedNumber>>

\* the provider is done with the call
end_call ==
    /\ call.phase \in {"ended", "failed"}
    /\ call' = NoCall
    /\ UNCHANGED <<file, now, llmKey, thr, lastq, cleared, savedNumber>>

\* a minute passes
tick ==
    /\ now < MaxNow
    /\ now' = now + 1
    /\ UNCHANGED <<file, llmKey, thr, call, lastq, cleared, savedNumber>>

----------------------------------------------------------------------------
(* Request bodies *)

\* the largest integer duration tried
MaxDurationInput == 62

Numbers == {"+15550001111", "+15550002222"}

IntDurations == {[k |-> "int", v |-> n] : n \in (0 - 2)..MaxDurationInput}

OtherDurations ==
    {[k |-> "missing"], [k |-> "null"],
     [k |-> "float", num |-> 27, den |-> 10],
     [k |-> "float", num |-> 0 - 5, den |-> 10],
     [k |-> "float", num |-> 609, den |-> 10],
     [k |-> "bool", b |-> TRUE],
     [k |-> "str", s |-> <<"7">>],
     [k |-> "str", s |-> <<" ", "1", "2">>],
     [k |-> "str", s |-> <<"-", "3">>],
     [k |-> "str", s |-> <<"9", "9">>],
     [k |-> "str", s |-> <<"2", ".", "5">>],
     [k |-> "str", s |-> <<"t", "e", "n">>],
     [k |-> "str", s |-> <<>>]}

ModeInputs == {"normal", "sleep", "meeting", "driving", "custom", "party", None, Missing}
ReasonInputs == {"", "at the gym", None, Missing}
NumberInputs == Numbers \cup {"", None, Missing}

BaseBody ==
    [mode |-> "sleep", reason |-> "", duration |-> [k |-> "int", v |-> 1],
     user_number |-> "+15550001111"]

\* the bodies tried one request at a time: every mode and reason, every
\* number, every duration
BodiesWide ==
    {[BaseBody EXCEPT !.mode = m, !.reason = r] : m \in ModeInputs, r \in ReasonInputs}
    \cup {[BaseBody EXCEPT !.user_number = n] : n \in NumberInputs}
    \cup {[BaseBody EXCEPT !.duration = d] : d \in IntDurations \cup OtherDurations}

\* the bodies tried under concurrency
BodiesSmall ==
    {BaseBody,
     [mode |-> "custom", reason |-> "", duration |-> [k |-> "int", v |-> 2],
      user_number |-> ""]}

----------------------------------------------------------------------------
(* Specifications *)

\* state.json is there when app.py was run as a script (app.py 292-294), the
\* key when the environment sets it (app.py 17)
Init ==
    /\ file \in {FileMissing, FileOf(DefaultState)}
    /\ now = 0
    /\ llmKey \in BOOLEAN
    /\ thr = [t \in Threads |-> IdleThread]
    /\ call = NoCall
    /\ lastq = NoQuery
    /\ cleared = NotCleared
    /\ savedNumber = None

\* a control request arrives at thread t
Control(t, bodies) ==
    \/ \E body \in bodies : set_mode(t, body)
    \/ clear_mode(t)
    \/ status(t)

\* a webhook request of the telephony provider arrives at thread t
Telephony(t) ==
    \/ incoming_call(t)
    \/ incoming_greet(t)
    \/ \E o \in RecordingOutcomes : process_recording(t, o)

\* the same with more outcomes of the collaborators
TelephonyWide(t) ==
    \/ incoming_call(t)
    \/ incoming_greet(t)
    \/ \E o \in RecordingOutcomesWide : process_recording(t, o)

\* thread t goes on with its request
Proceed(t) ==
    \/ status_check(t)
    \/ save_open(t)
    \/ save_write(t)
    \/ return(t)

\* thread w1 serves the control requests of the dashboard and thread w2 the
\* webhooks of the telephony provider, concurrently
Next ==
    \/ Control("w1", BodiesSmall)
    \/ Telephony("w2")
    \/ \E t \in Threads : Proceed(t)
    \/ end_call
    \/ tick

Spec == Init /\ [][Next]_vars

\* both threads serve control requests, concurrently
NextRace ==
    \/ \E t \in Threads : Control(t, BodiesSmall) \/ Proceed(t)
    \/ tick

\* the control requests do not read LLM_API_KEY
InitCtl == Init /\ llmKey = FALSE

SpecRace == InitCtl /\ [][NextRace]_vars

\* control requests alone, one at a time
NextCtl ==
    \/ Control("w1", BodiesWide)
    \/ Proceed("w1")
    \/ tick

SpecCtl == InitCtl /\ [][NextCtl]_vars

\* control requests and calls, one request at a time
NextSeq ==
    \/ Control("w1", BodiesSmall)
    \/ TelephonyWide("w1")
    \/ Proceed("w1")
    \/ end_call
    \/ tick

SpecSeq == Init /\ [][NextSeq]_vars

----------------------------------------------------------------------------
(* Claims *)

Verbs(response) == {response.verbs[i].verb : i \in 1..Len(response.verbs)}

\* the response speaks a sentence and then ends the call
SpeaksThenEnds(response) ==
    /\ response.kind = "twiml"
    /\ Len(response.verbs) = 2
    /\ response.verbs[1].verb = "Say"
    /\ response.verbs[1].arg # <<>>
    /\ response.verbs[2].verb \in {"Hangup", "Dial"}

\* C1: whatever the outcome of its steps, the handling of the recording
\* callback ends with a response that speaks a sentence and then hangs up or
\* dials; it never ends in an unhandled exception.
C1_RecordingAlwaysAnswered ==
    call.phase = "ended" => SpeaksThenEnds(call.out)

\* the record /process-recording reads from state.json as it starts
RecordRead == IF file.st = "ok" THEN file.rec ELSE DefaultState

\* /process-recording has just run and reached the urgency decision
Decided == call.phase = "recording" /\ call'.phase = "ended" /\ call'.transcribed

\* C2: with a transcript obtained, the call is bridged (the connecting
\* sentence, then Dial to the stored number, no reply, no Hangup) exactly when
\* the classifier says urgent and the record read has a non-empty forward
\* number, active mode or not; otherwise the composed reply is spoken, the
\* call is hung up and nothing is dialled.
C2_BridgeIffUrgentAndNumber ==
    [][Decided =>
        LET number == RecordRead.user_number
            bridge == call'.urgent /\ number # None /\ number # ""
        IN  /\ bridge <=> "Dial" \in Verbs(call'.out)
            /\ bridge => call'.out.verbs = <<Say(ConnectingSentence), Dial(number)>>
            /\ ~bridge => call'.out.verbs = <<Say(mode_reply(RecordRead)), Hangup>>
            /\ call'.out.kind = "twiml"]_vars

\* C2 witness: an urgent call was bridged to the stored number
C2_Witness ==
    /\ call.phase = "ended"
    /\ call.urgent
    /\ call.out.verbs = <<Say(ConnectingSentence), Dial("+15550001111")>>

\* a /set-mode request has been served by thread t
SetModeDone(t) == thr[t].op = "set_mode" /\ thr[t].pc = "done"

Clamp(d) == IF d < 1 THEN 1 ELSE IF d > 60 THEN 60 ELSE d

\* the integer a float num/den is cut to: the one nearest to zero of the two
\* around it
Truncated(num, den) ==
    CHOOSE q \in (0 - 100)..100 :
        IF num >= 0 THEN q * den <= num /\ num < (q + 1) * den
        ELSE (q - 1) * den < num /\ num <= q * den

\* the strings tried as durations and the integers they spell, if any
SpelledIntegers ==
    {<<<<"7">>, 7>>, <<<<" ", "1", "2">>, 12>>, <<<<"-", "3">>, 0 - 3>>,
     <<<<"9", "9">>, 99>>}

\* the minutes C3, as amended, expects for a duration
ExpectedMinutes(d) ==
    CASE d.k = "int" -> Clamp(d.v)
      [] d.k = "float" -> Clamp(Truncated(d.num, d.den))
      [] d.k = "bool" -> Clamp(IF d.b THEN 1 ELSE 0)
      [] d.k = "str" /\ (\E p \in SpelledIntegers : p[1] = d.s) ->
            Clamp((CHOOSE p \in SpelledIntegers : p[1] = d.s)[2])
      [] OTHER -> 5

\* C3, as amended: after set-mode the stored record has active=true and
\* expires = request time + clamp(d,1,60) minutes, where d is the duration
\* when it is an integer, the float cut toward zero when it is a finite float,
\* the integer spelled when it is a string spelling a decimal integer, and 1
\* or 0 for true or false; for a missing or null duration and for a string
\* that spells no integer it is the request time plus 5 minutes.
C3_ExpiresIsClampedDuration ==
    \A t \in Threads : SetModeDone(t) =>
        /\ file.st = "ok"
        /\ file.rec.active = TRUE
        /\ file.rec.expires = Ts(thr[t].at + ExpectedMinutes(thr[t].body.duration))

\* C3 as stated: an integer duration is clamped to [1, 60], and a missing or
\* non-integer duration gives the request time plus 5 minutes.
C3_NonIntegerDefaultsToFive ==
    \A t \in Threads : SetModeDone(t) =>
        LET d == thr[t].body.duration
        IN  /\ file.st = "ok"
            /\ file.rec.active = TRUE
            /\ d.k = "int" => file.rec.expires = Ts(thr[t].at + Clamp(d.v))
            /\ d.k \in {"missing", "null", "float", "str"} =>
                   file.rec.expires = Ts(thr[t].at + 5)

\* C3 witness: a duration above 60 was stored as 60 minutes
C3_Witness ==
    \E t \in Threads :
        /\ SetModeDone(t)
        /\ thr[t].body.duration.k = "int"
        /\ thr[t].body.duration.v > 60
        /\ file = FileOf(thr[t].state)
        /\ file.rec.expires = Ts(thr[t].at + 60)

\* a /status request has been served by thread t
StatusDone(t) ==
    thr[t].op = "status" /\ thr[t].pc = "done" /\ thr[t].ret.kind = "json"

\* C4: for a stored record with active=true and a past expiry, query returns
\* active=false and persists that; a second query right after it leaves the
\* persisted record as the first left it and returns the same record.
C4_QueryIdempotent ==
    /\ lastq.valid => ~lastq.ret.active /\ ~lastq.post.active
    /\ \A t \in Threads : StatusDone(t) /\ lastq.valid =>
           /\ thr[t].ret = JsonResponse(lastq.ret)
           /\ file = FileOf(lastq.post)

\* C4 witness: a second query has run after one that found an expired mode
C4_Witness == \E t \in Threads : StatusDone(t) /\ lastq.valid

\* C5: when a read finds the stored record active with an expiry that has
\* passed, is malformed or is missing, then after the read both the persisted
\* record and the record returned have active=false and expires=null.
C5_ReadHealsRecord ==
    \A t \in Threads :
        (/\ thr[t].pc = "done"
         /\ thr[t].op \in {"status", "incoming_call"}
         /\ thr[t].found \in {"expired", "malformed", "missing"}) =>
            /\ file.st = "ok"
            /\ file.rec.active = FALSE
            /\ file.rec.expires = NoExpiry
            /\ thr[t].op = "status" =>
                   /\ thr[t].ret.state.active = FALSE
                   /\ thr[t].ret.state.expires = NoExpiry

\* C6: when state.json is unreadable as a call handler reads it (a
\* concurrent save_state has truncated it and not yet rewritten it), the read
\* does not raise: the handler goes on with the default inactive record and
\* returns a call response.
C6_UnreadableStateTolerated ==
    /\ \A t \in Threads :
           thr[t].op = "incoming_call" /\ thr[t].pc = "done" =>
               thr[t].ret.kind = "twiml"
    /\ call.phase = "ended" => call.out # ServerError("state_unreadable")

\* the mode was in effect when the call's activity check read the record
LiveAtCall ==
    /\ call.snap.active
    /\ call.snap.expires # NoExpiry
    /\ call.snap.expires.k = "ts"
    /\ call.snapAt <= call.snap.expires.t

\* C7: a call uses one snapshot of the record from its greeting to its
\* routing decision: whatever set-mode or clear-mode do meanwhile, the mode
\* named in the greeting, the reply sentence and the bridge target are those
\* of the record as it was when the call started.
C7_OneSnapshotPerCall ==
    /\ (call.phase \in {"recording", "ended"} /\ LiveAtCall) =>
           call.greet = <<Say(ModeGreeting(call.snap.mode)), Record>>
    /\ (call.phase = "ended" /\ call.transcribed /\ call.out.kind = "twiml") =>
           call.out.verbs \in
               {<<Say(ConnectingSentence), Dial(call.snap.user_number)>>,
                <<Say(mode_reply(call.snap)), Hangup>>}

\* C8: in every persisted state of the record, under every interleaving of
\* the requests, active=true implies that expires is set.
C8_ActiveHasExpiry ==
    (file.st = "ok" /\ file.rec.active) => file.rec.expires # NoExpiry

\* the record calls for the generic sentence: custom without a reason, normal,
\* or not in effect
CallsForGeneric(state, t) ==
    \/ state.mode = "custom" /\ state.reason \in {"", None}
    \/ state.mode = "normal"
    \/ ~state.active
    \/ state.expires = NoExpiry
    \/ state.expires.k = "ts" /\ t > state.expires.t

\* C9: the reply is one and the same generic sentence for a record with
\* mode=custom and no reason, for mode=normal and for any record that is not
\* in effect, whatever mode it stores; the sleep, meeting and driving
\* sentences are spoken only for a mode in effect.
C9_GenericReplyUnlessInEffect ==
    [][(Decided /\ "Hangup" \in Verbs(call'.out) /\ CallsForGeneric(RecordRead, now)) =>
          call'.out.verbs = <<Say(NormalSentence), Hangup>>]_vars

\* an /incoming-call request has been answered by thread t
Greeted(t) ==
    thr[t].op = "incoming_call" /\ thr[t].pc = "done" /\ thr[t].ret.kind = "twiml"

\* C10: the greeting names the stored mode if and only if the record, as the
\* call's activity check reads it, has active=true and an expiry that has not
\* passed; otherwise the generic greeting is spoken.  Either way exactly one
\* Record instruction calling back /process-recording follows.
C10_GreetingNamesLiveMode ==
    \A t \in Threads : Greeted(t) =>
        /\ LiveAtCall => thr[t].ret.verbs = <<Say(ModeGreeting(thr[t].state.mode)), Record>>
        /\ ~LiveAtCall => thr[t].ret.verbs = <<Say(GenericGreeting), Record>>
        /\ Record.arg = <<"/process-recording">>

\* C10 witness: a mode was activated and has expired, and the call gets the
\* generic greeting
C10_Witness ==
    \E t \in Threads :
        /\ Greeted(t)
        /\ call.snap.active
        /\ call.snap.expires.k = "ts"
        /\ call.snapAt > call.snap.expires.t
        /\ thr[t].ret.verbs = <<Say(GenericGreeting), Record>>

\* the text is empty or holds whitespace only
Blank(text) == \A i \in 1..Len(text) : text[i] \in Whitespace

\* word w, written in lower case, stands in the text at offset i in any case
StandsAt(text, w, i) ==
    \A j \in 1..Len(w) : text[i + j] \in {w[j], UpperChar(w[j])}

\* the text holds word w as a substring, in any case
Holds(text, w) == \E i \in 0..(Len(text) - Len(w)) : StandsAt(text, w, i)

\* the six words of the keyword strategy
Keywords ==
    {<<"u", "r", "g", "e", "n", "t">>, <<"e", "m", "e", "r", "g", "e", "n", "c", "y">>,
     <<"i", "m", "p", "o", "r", "t", "a", "n", "t">>, <<"a", "s", "a", "p">>,
     <<"i", "m", "m", "e", "d", "i", "a", "t", "e", "l", "y">>, <<"h", "e", "l", "p">>}

\* what the keyword strategy is to answer for the text
KeywordStrategy(text) == ~Blank(text) /\ \E w \in Keywords : Holds(text, w)

\* the recording of the call was transcribed and its text classified
Classified == call.phase = "ended" /\ call.classified

\* C11: without LLM_API_KEY the classification of the transcript is false for
\* an empty or whitespace-only text, and for every other text it is true
\* exactly when the text holds one of urgent, emergency, important, asap,
\* immediately, help as a substring, in any case.
C11_KeywordsWithoutCredential ==
    (Classified /\ ~llmKey) =>
        /\ Blank(call.text) => ~call.urgent
        /\ call.urgent = KeywordStrategy(call.text)

\* C11 witness: without the key, a text that holds a keyword in another case
\* than lower case was classified urgent
C11_Witness ==
    /\ Classified /\ ~llmKey /\ call.urgent
    /\ call.text # Lower(call.text)

\* C12: with LLM_API_KEY and a non-blank transcript the Groq completion is
\* requested exactly once; when it answers, the classification is true exactly
\* when the answer holds YES in any case; when it raises, the classification
\* is what the keyword strategy gives for the same text, and the request is
\* still answered with TwiML.  The completion is never requested twice.
C12_CompletionOnceThenKeywords ==
    /\ call.llmCalls <= 1
    /\ (Classified /\ llmKey /\ ~Blank(call.text)) =>
          /\ call.llmCalls = 1
          /\ call.llm.ok => call.urgent = Holds(call.llm.ans, <<"y", "e", "s">>)
          /\ ~call.llm.ok => call.urgent = KeywordStrategy(call.text)
          /\ call.out.kind = "twiml"

\* C12 witness: with the key, the completion raised and the keywords of the
\* text made the call urgent
C12_Witness ==
    /\ Classified /\ llmKey /\ call.llmCalls = 1 /\ ~call.llm.ok
    /\ call.urgent /\ KeywordStrategy(call.text)

\* the values of the mode field
ModeEnum == {"normal", "sleep", "meeting", "driving", "custom"}

\* C13: after any sequence of /set-mode, /clear-mode and /status requests with
\* arbitrary bodies the mode of the stored record is one of normal, sleep,
\* meeting, driving, custom; a /set-mode whose mode is missing or is none of
\* these stores normal.
C13_StoredModeEnumerated ==
    /\ file.st = "ok" => file.rec.mode \in ModeEnum
    /\ \A t \in Threads :
          (SetModeDone(t) /\ thr[t].body.mode \notin ModeEnum) =>
              thr[t].ret.state.mode = "normal"

\* a step that handles the recording callback of the call
RecordingHandled == call.phase = "recording" /\ call'.phase = "ended"

\* C14: handling the recording callback leaves state.json as it was when the
\* handling started, on every path (no RecordingUrl, failed fetch, bridge,
\* reply); a failed fetch ends the call with the error sentence and Hangup.
C14_RecordingLeavesRecord ==
    [][RecordingHandled =>
          /\ file' = file
          /\ call'.fetchFailed => call'.out.verbs = <<Say(FetchErrorSentence), Hangup>>]_vars

\* C14 witness: the fetch failed while a mode was active; the call ended with
\* the error sentence and the record is still active
C14_Witness ==
    /\ call.phase = "ended" /\ call.fetchFailed
    /\ call.out.verbs = <<Say(FetchErrorSentence), Hangup>>
    /\ file.st = "ok" /\ file.rec.active /\ file.rec.user_number \in Numbers

\* C15: a recording callback without RecordingUrl is answered with the apology
\* sentence and Hangup whatever record state.json holds, and for that call
\* nothing is fetched, transcribed or classified and no Dial is issued.
C15_NoRecordingApology ==
    [][(RecordingHandled /\ ~call'.hasUrl) =>
          /\ file.st = "ok" =>
                call'.out.verbs = <<Say(<<"Sorry, I did not get that. Goodbye.">>), Hangup>>
          /\ ~call'.fetched /\ ~call'.transcribed /\ ~call'.classified
          /\ call'.llmCalls = 0 /\ ~call'.urgent
          /\ "Dial" \notin Verbs(call'.out)]_vars

\* C15 witness: a callback without RecordingUrl, with a mode active and a
\* forward number stored, was answered with the apology and Hangup
C15_Witness ==
    /\ call.phase = "ended" /\ ~call.hasUrl
    /\ call.out.verbs = <<Say(NoRecordingSentence), Hangup>>
    /\ file.st = "ok" /\ file.rec.active /\ file.rec.user_number \in Numbers

\* C16: once a /clear-mode has returned and no /set-mode starts afterwards,
\* the stored record stays inactive (active=false, mode=normal), so that every
\* later /status reports active=false, also when a /status was in progress
\* beside the /clear-mode: /status never writes an earlier copy of the record
\* back over the one /clear-mode wrote.
C16_ClearedStaysInactive ==
    (cleared.done /\ file.st = "ok") => ~file.rec.active /\ file.rec.mode = "normal"

\* C17: /clear-mode and the healing of an expired mode leave user_number as
\* the last /set-mode stored it, whatever /clear-mode, /status, call and clock
\* steps come after it, and an urgent call is bridged to that number.
C17_NumberKept ==
    [][/\ file'.st = "ok" => file'.rec.user_number = savedNumber'
       /\ (RecordingHandled /\ call'.urgent /\ savedNumber \notin {None, ""}) =>
              call'.out.verbs = <<Say(ConnectingSentence), Dial(savedNumber)>>]_vars

\* C17 witness: after /set-mode and then /clear-mode, as the dashboard saves a
\* number, an urgent call was bridged to the number
C17_Witness ==
    /\ call.phase = "ended" /\ call.urgent /\ savedNumber \in Numbers
    /\ call.out.verbs = <<Say(ConnectingSentence), Dial(savedNumber)>>
    /\ cleared.done
    /\ file.st = "ok" /\ ~file.rec.active /\ file.rec.mode = "normal"

====
